---- MODULE Spec2Model ----
(***************************************************************************)
(* Model of the Hacker News bulk extraction engines.                       *)
(*                                                                         *)
(*   engine = "batched"  : hackernews/data_puller.py  DataPuller.pull_items *)
(*   engine = "period"   : pull_six_months.py  DataPuller.pull_data_for_period *)
(*   engine = "recent"   : pull_six_months.py  DataPuller.pull_recent_items *)
(*   engine = "stories"  : hackernews/client.py  HackerNewsClient.get_top_stories *)
(*                                                                         *)
(* Optional values (Python None / a missing dict key) are sequences of     *)
(* length at most one: None is <<>> and a present value x is <<x>>.        *)
(***************************************************************************)
EXTENDS Integers, Sequences, FiniteSets, TLC

\* ---------------------------------------------------------------- bounds
MaxIdBound == 3
MaxBatch == 3
MaxBudget == 1
MaxStories == 3

\* ------------------------------------------------------------ option type
None == <<>>
Some(x) == <<x>>
IsNone(o) == o = <<>>
Get(o) == o[1]

Max(a, b) == IF a >= b THEN a ELSE b

\* --------------------------------------------------------- upstream world
Users == {"a", "b"}
Times == {1, 2}
\* cutoff_time as computed from n_months; None when n_months is None
Cutoffs == {None, Some(2)}
Budgets == {None} \cup {Some(k) : k \in 0..MaxBudget}
BatchSizes == 1..MaxBatch
\* What upstream answers for GET /topstories (and the other story lists), and
\* the limit argument: None, or a number of IDs from 0 to more than the list has
StoryLists == UNION {[1..n -> 1..MaxStories] : n \in 0..MaxStories}
Limits == {None} \cup {Some(n) : n \in 0..(MaxStories + 1)}
\* max_concurrent: one that no batch exceeds (the fetches of a batch can then
\* complete in every order), and the ones that batches and user sets exceed
NoLimit == {MaxBatch}
SlotLimits == {1, 2}

\* What upstream answers for GET /item/{id}: an item, null / not found, or a
\* transport failure. Every field but the ID is optional in an item.
ItemShapes ==
  {[kind |-> "item", time |-> Some(2), by |-> Some("a")],
   [kind |-> "item", time |-> Some(2), by |-> Some("b")],
   [kind |-> "item", time |-> Some(1), by |-> Some("a")],
   [kind |-> "item", time |-> None, by |-> None]}
Responses ==
  [kind : {"absent", "error"}, time : {None}, by : {None}] \cup ItemShapes

VARIABLES
  engine,               \* which entry point this behaviour runs
  upstream,             \* [1..maxitem -> Responses], fixed during a behaviour
  batch_size,           \* DataPuller.batch_size
  max_concurrent,       \* HackerNewsAPIClient(max_concurrent=...)
  max_items,            \* pull_items argument (option)
  cutoff_time,          \* pull_items local (option), fixed by n_months
  pc,                   \* control point of the entry point
  second,               \* TRUE in the second call on the same instance
  item_file,            \* [exists, lines]: the items JSONL file
  user_file,            \* [exists, lines]: the users JSONL file
  collected_usernames,  \* DataPuller.collected_usernames
  items_pulled,
  current_id,
  should_stop,
  batch_ids,            \* sequence of IDs of the batch in flight
  batch_end,
  pending,              \* item fetch tasks not yet completed
  items,                \* results of the completed item fetch tasks, by ID
  done_order,           \* IDs in the order their fetches completed
  user_pending,         \* save_user tasks not yet completed
  in_flight,            \* fetches that hold a slot of the client
  result,               \* value returned by the entry point (option)
  bootstrap,            \* outcome of get_max_item_id in the current call
  run_items,            \* history: item records emitted by the current call
  run_users,            \* history: user records emitted by the current call
  reordered,            \* history: the batch being processed completed out of task order
  fetch_log,            \* history: outcomes of the item fetches of the current call, by ID
  count,                \* pull_recent_items argument
  story_ids,            \* the ID list upstream gives get_top_stories
  limit,                \* get_top_stories argument (option)
  stats,                \* pull_six_months.DataPuller.stats
  collected_users,      \* pull_six_months.DataPuller.collected_users
  items_outside_range,
  consecutive_old_items,
  items_checked

config == <<engine, upstream, batch_size, max_concurrent, max_items,
            cutoff_time, count, story_ids, limit>>
files == <<item_file, user_file>>
locals == <<items_pulled, current_id, should_stop, batch_end>>
wave == <<batch_ids, pending, items, done_order>>
history == <<run_items, run_users, reordered>>
seq == <<stats, collected_users, items_outside_range, consecutive_old_items,
         items_checked>>
vars == <<config, pc, second, files, collected_usernames, locals, wave,
          user_pending, in_flight, result, bootstrap, history, fetch_log, seq>>

NoFile == [exists |-> FALSE, lines |-> <<>>]

\* DataPuller.clear_output: open(path, 'w') creates or truncates the file
clear_output(f) == [exists |-> TRUE, lines |-> <<>>]

\* DataPuller.save_object: open(path, 'a') creates the file if needed and
\* appends one JSON line
save_object(obj, f) == [exists |-> TRUE, lines |-> Append(f.lines, obj)]

\* The decoded item dict for an ID whose upstream response is an item
ItemDict(id) == [id |-> id, time |-> upstream[id].time, by |-> upstream[id].by]

\* The decoded user dict
UserDict(username) == [id |-> username]

\* What a fetch gave its caller: an item, None, or an exception
Outcome(r) ==
  IF r.status = "raise" THEN "raise"
  ELSE IF IsNone(r.value) THEN "none" ELSE "item"

\* fetch_log[id] lists the outcomes of the fetches of item id, oldest first
EmptyLog == [id \in DOMAIN upstream |-> <<>>]
Logged(id, outcome) == [fetch_log EXCEPT ![id] = Append(@, outcome)]

\* Python range(a, b, -1) as a list: a, a-1, ..., b+1
RangeDown(a, b) == [i \in 1..Max(a - b, 0) |-> a - i + 1]

SeqToSet(s) == {s[i] : i \in 1..Len(s)}

\* ------------------------------------------------------ async client (missing)
\* HackerNewsAPIClient.get_max_item_id: an integer, or None, or an exception
MaxIdOutcomes == {"ok", "none", "raise"}

\* HackerNewsAPIClient.collect_item: the decoded dict, None, or an exception
collect_item(id) ==
  CASE upstream[id].kind = "item" -> [status |-> "ok", value |-> Some(ItemDict(id))]
    [] upstream[id].kind = "absent" -> [status |-> "ok", value |-> None]
    [] OTHER -> [status |-> "raise", value |-> None]

\* HackerNewsAPIClient.collect_user, for the response resp of GET /user/{name}
UserResponses == {"user", "absent", "error"}
collect_user(username, resp) ==
  CASE resp = "user" -> [status |-> "ok", value |-> Some(UserDict(username))]
    [] resp = "absent" -> [status |-> "ok", value |-> None]
    [] OTHER -> [status |-> "raise", value |-> None]

\* The fetches of the client, as the things that hold a slot
MaxIdTask == [kind |-> "maxitem", id |-> 0, name |-> ""]
ItemTask(id) == [kind |-> "item", id |-> id, name |-> ""]
UserTask(username) == [kind |-> "user", id |-> 0, name |-> username]

\* Slot acquisition with no limit
AdmitAll(waiting, flying) == flying \cup SeqToSet(waiting)

\* Slot acquisition: the fetches waiting (in their order) get the free slots
\* of the max_concurrent the client has; flying are the ones that hold one
Admit(waiting, flying) ==
  LET free == max_concurrent - Cardinality(flying)
  IN flying \cup {waiting[i] : i \in 1..(IF free < Len(waiting) THEN free ELSE Len(waiting))}

\* The orders in which a set of tasks can have been created
Orderings(S) ==
  {f \in [1..Cardinality(S) -> S] : \A i, j \in 1..Cardinality(S) : i # j => f[i] # f[j]}

\* ------------------------------------------------------------- data_puller.py
\* The item fetch tasks of the batch not completed and without a slot yet, in
\* task order
WaitingItems(pend, flying) ==
  LET w == SelectSeq(batch_ids, LAMBDA x : x \in pend /\ ItemTask(x) \notin flying)
  IN [i \in 1..Len(w) |-> ItemTask(w[i])]

\* The save_user tasks not completed and without a slot yet
WaitingUsers(pend, flying) == {UserTask(u) : u \in {x \in pend : UserTask(x) \notin flying}}

\* pull_single_item without its try/except
pull_single_item_unguarded(id) == collect_item(id)

\* DataPuller.pull_single_item: any Exception becomes None
pull_single_item(id) ==
  LET r == collect_item(id)
  IN IF r.status = "raise" THEN [status |-> "ok", value |-> None] ELSE r

\* pull_single_user without its try/except
pull_single_user_unguarded(username, resp) == collect_user(username, resp)

\* DataPuller.pull_single_user: any Exception becomes None
pull_single_user(username, resp) ==
  LET r == collect_user(username, resp)
  IN IF r.status = "raise" THEN [status |-> "ok", value |-> None] ELSE r

\* The results in the order the tasks completed (asyncio.as_completed)
GatheredInCompletionOrder == [i \in 1..Len(batch_ids) |-> items[done_order[i]]]

\* await asyncio.gather(*tasks): the results in the order of the tasks
Gathered == [i \in 1..Len(batch_ids) |-> items[batch_ids[i]]]

\* The cutoff comparison turned around
OlderThanCutoffFlipped(item) ==
  /\ ~IsNone(cutoff_time)
  /\ ~IsNone(item.time)
  /\ Get(item.time) > Get(cutoff_time)

\* "if cutoff_time is not None and 'time' in item: if item['time'] < cutoff_time"
OlderThanCutoff(item) ==
  /\ ~IsNone(cutoff_time)
  /\ ~IsNone(item.time)
  /\ Get(item.time) < Get(cutoff_time)

\* The author test without the lookup in the dedup set
NewAuthorNoDedup(item, collected) == ~IsNone(item.by)

\* "if 'by' in item and item['by'] not in self.collected_usernames"
NewAuthor(item, collected) == ~IsNone(item.by) /\ Get(item.by) \notin collected

\* The loop body with the author collected before the cutoff test
RECURSIVE ProcessItemsAuthorFirst(_, _, _)
ProcessItemsAuthorFirst(i, got, st) ==
  IF i > Len(batch_ids) THEN st
  ELSE IF IsNone(got[i]) THEN ProcessItemsAuthorFirst(i + 1, got, st)
  ELSE LET item == Get(got[i])
           new == NewAuthor(item, st.collected)
           seen == [st EXCEPT
                      !.batch_usernames = IF new THEN @ \cup {Get(item.by)} ELSE @,
                      !.collected = IF new THEN @ \cup {Get(item.by)} ELSE @]
       IN
    IF OlderThanCutoff(item) THEN [seen EXCEPT !.should_stop = TRUE]
    ELSE ProcessItemsAuthorFirst(i + 1, got,
           [seen EXCEPT !.item_file = save_object(item, @),
                        !.emitted = Append(@, item),
                        !.items_pulled = @ + 1])

\* One pass of "for item_id, item in zip(batch_ids, items)" from position i,
\* on the loop state st
RECURSIVE ProcessItems(_, _, _)
ProcessItems(i, got, st) ==
  IF i > Len(batch_ids) THEN st
  ELSE IF IsNone(got[i]) THEN ProcessItems(i + 1, got, st)
  ELSE LET item == Get(got[i]) IN
    IF OlderThanCutoff(item) THEN [st EXCEPT !.should_stop = TRUE]
    ELSE LET new == NewAuthor(item, st.collected) IN
      ProcessItems(i + 1, got,
        [st EXCEPT !.item_file = save_object(item, @),
                   !.emitted = Append(@, item),
                   !.items_pulled = @ + 1,
                   !.batch_usernames = IF new THEN @ \cup {Get(item.by)} ELSE @,
                   !.collected = IF new THEN @ \cup {Get(item.by)} ELSE @])

\* The batch of IDs of one step (lines 109-119)
BatchEndOf(cur) == Max(cur - batch_size + 1, 1)
\* The batch not cut to the remaining budget
BatchIdsWholeBatch(cur, pulled) == RangeDown(cur, BatchEndOf(cur) - 1)
BatchIds(cur, pulled) ==
  IF ~IsNone(max_items)
  THEN RangeDown(cur, Max(BatchEndOf(cur) - 1, cur - (Get(max_items) - pulled)))
  ELSE RangeDown(cur, BatchEndOf(cur) - 1)

\* The cursor left where it was
NextCursorStays == current_id

\* "current_id = batch_end - 1" (line 171)
NextCursor == batch_end - 1

ResetLocals ==
  /\ items_pulled' = 0
  /\ current_id' = 0
  /\ should_stop' = FALSE
  /\ batch_end' = 0
  /\ batch_ids' = <<>>
  /\ pending' = {}
  /\ items' = <<>>
  /\ done_order' = <<>>
  /\ user_pending' = {}

\* pull_items, line 77: the max-ID fetch is issued
MaxIdFetch ==
  /\ engine = "batched"
  /\ pc = "init"
  /\ pc' = "maxid"
  /\ in_flight' = Admit(<<MaxIdTask>>, in_flight)
  /\ UNCHANGED <<config, second, files, collected_usernames, locals, wave,
                 user_pending, result, bootstrap, history, fetch_log, seq>>

\* pull_items, lines 77-101: the max-ID fetch completes
Bootstrap ==
  /\ engine = "batched"
  /\ pc = "maxid"
  /\ in_flight' = in_flight \ {MaxIdTask}
  /\ \E o \in MaxIdOutcomes :
       /\ bootstrap' = o
       /\ CASE o = "ok" ->
                 /\ item_file' = clear_output(item_file)
                 /\ user_file' = clear_output(user_file)
                 /\ items_pulled' = 0
                 /\ current_id' = Len(upstream)
                 /\ should_stop' = FALSE
                 /\ pc' = "loop"
                 /\ result' = None
            [] o = "none" ->
                 /\ pc' = "done"
                 /\ result' = Some(0)
                 /\ UNCHANGED <<files, items_pulled, current_id, should_stop>>
            [] OTHER ->
                 /\ pc' = "raised"
                 /\ result' = None
                 /\ UNCHANGED <<files, items_pulled, current_id, should_stop>>
  /\ UNCHANGED <<config, second, collected_usernames, batch_end, wave,
                 user_pending, history, fetch_log, seq>>

\* pull_items, lines 103-123: the budget test, the batch, the fetch tasks
LoopHead ==
  /\ engine = "batched"
  /\ pc = "loop"
  /\ IF ~IsNone(max_items) /\ items_pulled >= Get(max_items)
     THEN /\ pc' = "done"
          /\ result' = Some(items_pulled)
          /\ UNCHANGED <<batch_end, wave, in_flight>>
     ELSE /\ batch_end' = BatchEndOf(current_id)
          /\ batch_ids' = BatchIds(current_id, items_pulled)
          /\ pending' = SeqToSet(BatchIds(current_id, items_pulled))
          /\ items' = <<>>
          /\ done_order' = <<>>
          /\ in_flight' = Admit([i \in 1..Len(BatchIds(current_id, items_pulled)) |->
                                  ItemTask(BatchIds(current_id, items_pulled)[i])],
                                in_flight)
          /\ pc' = "gather"
          /\ UNCHANGED result
  /\ UNCHANGED <<config, second, files, collected_usernames, items_pulled,
                 current_id, should_stop, user_pending, bootstrap, history,
                 fetch_log, seq>>

\* One item fetch task of the batch completes (lines 34-40 under gather)
ItemFetchDone ==
  /\ engine = "batched"
  /\ pc = "gather"
  /\ \E id \in pending :
       LET r == pull_single_item(id)
           released == in_flight \ {ItemTask(id)}
       IN
       /\ ItemTask(id) \in in_flight
       /\ in_flight' = Admit(WaitingItems(pending \ {id}, released), released)
       /\ fetch_log' = Logged(id, Outcome(r))
       /\ IF r.status = "raise"
          THEN /\ pc' = "raised"
               /\ UNCHANGED wave
          ELSE /\ items' = (id :> r.value) @@ items
               /\ pending' = pending \ {id}
               /\ done_order' = Append(done_order, id)
               /\ UNCHANGED <<pc, batch_ids>>
  /\ UNCHANGED <<config, second, files, collected_usernames, locals,
                 user_pending, result, bootstrap, history, seq>>

\* pull_items, lines 125-165: gather has returned; process the batch and
\* start the save_user tasks
ProcessBatch ==
  /\ engine = "batched"
  /\ pc = "gather"
  /\ pending = {}
  /\ LET st == ProcessItems(1, Gathered,
                 [item_file |-> item_file, emitted |-> run_items,
                  items_pulled |-> items_pulled, batch_usernames |-> {},
                  collected |-> collected_usernames,
                  should_stop |-> should_stop])
     IN /\ item_file' = st.item_file
        /\ run_items' = st.emitted
        /\ items_pulled' = st.items_pulled
        /\ collected_usernames' = st.collected
        /\ should_stop' = st.should_stop
        /\ user_pending' = st.batch_usernames
        /\ \E order \in Orderings({UserTask(u) : u \in st.batch_usernames}) :
             in_flight' = Admit(order, in_flight)
  /\ reordered' = (reordered \/ done_order # batch_ids)
  /\ done_order' = <<>>
  /\ pc' = "users"
  /\ UNCHANGED <<config, second, user_file, current_id, batch_end, batch_ids,
                 pending, items, result, bootstrap, run_users, fetch_log, seq>>

\* DataPuller.save_user (lines 50-56): one save_user task completes
UserFetchDone ==
  /\ engine = "batched"
  /\ pc = "users"
  /\ \E username \in user_pending, resp \in UserResponses :
       LET r == pull_single_user(username, resp)
           released == in_flight \ {UserTask(username)}
       IN
       /\ UserTask(username) \in in_flight
       /\ \E order \in Orderings(WaitingUsers(user_pending \ {username}, released)) :
            in_flight' = Admit(order, released)
       /\ user_pending' = user_pending \ {username}
       /\ IF r.status = "raise"
          THEN /\ pc' = "raised"
               /\ UNCHANGED <<user_file, run_users>>
          ELSE /\ pc' = pc
               /\ IF ~IsNone(r.value)
                  THEN /\ user_file' = save_object(Get(r.value), user_file)
                       /\ run_users' = Append(run_users, Get(r.value))
                  ELSE UNCHANGED <<user_file, run_users>>
  /\ UNCHANGED <<config, second, item_file, collected_usernames, locals, wave,
                 result, bootstrap, run_items, reordered, fetch_log, seq>>

\* The batch's tail runs without waiting for the wave of user fetches
UsersNotAwaited == TRUE

\* pull_items, lines 162-166: await asyncio.gather(*user_tasks) returns when
\* every save_user task of the batch has completed
UsersGathered == user_pending = {}

\* pull_items, lines 168-184 and the loop condition of line 103
BatchEnd ==
  /\ engine = "batched"
  /\ pc = "users"
  /\ UsersGathered
  /\ current_id' = NextCursor
  /\ IF \/ NextCursor < 1
        \/ ~IsNone(max_items) /\ items_pulled >= Get(max_items)
        \/ should_stop
     THEN /\ pc' = "done"
          /\ result' = Some(items_pulled)
     ELSE /\ pc' = "loop"
          /\ UNCHANGED result
  /\ reordered' = FALSE
  /\ UNCHANGED <<config, second, files, collected_usernames, items_pulled,
                 should_stop, batch_end, wave, user_pending, in_flight, bootstrap,
                 run_items, run_users, fetch_log, seq>>

\* A second call of pull_items on the same DataPuller, same destinations
Rerun ==
  /\ engine = "batched"
  /\ pc \in {"done", "raised"}
  /\ ~second
  /\ second' = TRUE
  /\ pc' = "init"
  /\ result' = None
  /\ bootstrap' = "pending"
  /\ run_items' = <<>>
  /\ run_users' = <<>>
  /\ reordered' = FALSE
  /\ fetch_log' = EmptyLog
  /\ ResetLocals
  /\ in_flight' = {}
  /\ UNCHANGED <<config, files, collected_usernames, seq>>

\* ------------------------------------------------------------------ client.py
\* The exception a failing request raises inside HackerNewsClient._get:
\* raise_for_status gives HTTPError; session.get gives Timeout/ConnectionError
Excs == {"HTTPError", "Timeout"}

\* HackerNewsClient.get_item: only requests.exceptions.HTTPError becomes None
get_item(id, exc) ==
  CASE upstream[id].kind = "item" -> [status |-> "ok", value |-> Some(ItemDict(id))]
    [] upstream[id].kind = "absent" -> [status |-> "ok", value |-> None]
    [] OTHER -> IF exc = "HTTPError" THEN [status |-> "ok", value |-> None]
                ELSE [status |-> "raise", value |-> None]

\* HackerNewsClient.get_user: only requests.exceptions.HTTPError becomes None
get_user(username, resp, exc) ==
  CASE resp = "user" -> [status |-> "ok", value |-> Some(UserDict(username))]
    [] resp = "absent" -> [status |-> "ok", value |-> None]
    [] OTHER -> IF exc = "HTTPError" THEN [status |-> "ok", value |-> None]
                ELSE [status |-> "raise", value |-> None]

\* Python "if limit": None and 0 are false
TruthyLimit(o) == ~IsNone(o) /\ Get(o) # 0

\* Python s[:n]: the first n elements, or all but the last -n when n < 0
SliceTo(s, n) ==
  SubSeq(s, 1, IF n >= 0 THEN (IF n < Len(s) THEN n ELSE Len(s))
               ELSE Max(Len(s) + n, 0))

\* HackerNewsClient.get_top_stories, given the decoded response; the bodies
\* of get_new_stories, get_best_stories, get_ask_stories, get_show_stories
\* and get_job_stories are the same
get_top_stories(ids, lim) == IF TruthyLimit(lim) THEN SliceTo(ids, Get(lim)) ELSE ids

\* One call of get_top_stories(limit): _get raises, or the list is cut
GetStories ==
  /\ engine = "stories"
  /\ pc = "init"
  /\ \E o \in {"ok", "raise"} :
       /\ bootstrap' = o
       /\ IF o = "ok"
          THEN /\ result' = Some(get_top_stories(story_ids, limit))
               /\ pc' = "done"
          ELSE /\ pc' = "raised"
               /\ UNCHANGED result
  /\ UNCHANGED <<config, second, files, collected_usernames, locals, wave,
                 user_pending, in_flight, history, fetch_log, seq>>

\* --------------------------------------------------------- pull_six_months.py
MaxConsecutiveOld == 2

ZeroStats ==
  [items_total |-> 0, items_saved |-> 0, items_skipped |-> 0,
   users_saved |-> 0, users_failed |-> 0, errors |-> 0]

\* Python truthiness of an optional integer / of an optional non-empty string
TruthyTime(o) == ~IsNone(o) /\ Get(o) # 0
TruthyBy(o) == ~IsNone(o)

\* The part of the object state that save_item and save_user work on
Outputs ==
  [items_file |-> item_file, users_file |-> user_file, stats |-> stats,
   collected |-> collected_users, run_items |-> run_items,
   run_users |-> run_users]

\* save_user marking the name as collected before the fetch, as pull_items does
save_user_mark_first(username, resp, exc, b) ==
  IF username \in b.collected THEN b
  ELSE LET r == get_user(username, resp, exc)
           m == [b EXCEPT !.collected = @ \cup {username}]
       IN
    IF r.status = "raise"
    THEN [m EXCEPT !.stats.errors = @ + 1, !.stats.users_failed = @ + 1]
    ELSE IF ~IsNone(r.value)
    THEN [m EXCEPT !.users_file = save_object(Get(r.value), @),
                   !.run_users = Append(@, Get(r.value)),
                   !.stats.users_saved = @ + 1]
    ELSE [m EXCEPT !.stats.users_failed = @ + 1]

\* DataPuller.save_user (pull_six_months.py, lines 107-128)
save_user(username, resp, exc, b) ==
  IF username \in b.collected THEN b
  ELSE LET r == get_user(username, resp, exc) IN
    IF r.status = "raise"
    THEN [b EXCEPT !.stats.errors = @ + 1, !.stats.users_failed = @ + 1]
    ELSE IF ~IsNone(r.value)
    THEN [b EXCEPT !.users_file = save_object(Get(r.value), @),
                   !.run_users = Append(@, Get(r.value)),
                   !.collected = @ \cup {username},
                   !.stats.users_saved = @ + 1]
    ELSE [b EXCEPT !.stats.users_failed = @ + 1]

\* DataPuller.save_item (pull_six_months.py, lines 91-105)
save_item(item, resp, exc, b) ==
  IF IsNone(item) THEN [b EXCEPT !.stats.items_skipped = @ + 1]
  ELSE LET saved == [b EXCEPT !.items_file = save_object(Get(item), @),
                              !.run_items = Append(@, Get(item)),
                              !.stats.items_saved = @ + 1]
       IN IF TruthyBy(Get(item).by) /\ Get(Get(item).by) \notin saved.collected
          THEN save_user(Get(Get(item).by), resp, exc, saved)
          ELSE saved

\* The considered count incremented only for a present item
AfterFetchPresentOnly(st, item) ==
  IF IsNone(item) THEN st ELSE [st EXCEPT !.items_total = @ + 1]

\* "self.stats['items_total'] += 1" right after the fetch returned (line 175)
AfterFetch(st, item) == [st EXCEPT !.items_total = @ + 1]

\* "if item and item.time" / "if item.time >= cutoff_timestamp"
HasTime(item) == ~IsNone(item) /\ TruthyTime(Get(item).time)
InRange(item) == Get(Get(item).time) >= Get(cutoff_time)

SetOutputs(b) ==
  /\ item_file' = b.items_file
  /\ user_file' = b.users_file
  /\ stats' = b.stats
  /\ collected_users' = b.collected
  /\ run_items' = b.run_items
  /\ run_users' = b.run_users
  /\ UNCHANGED reordered

\* pull_data_for_period lines 148-158 / pull_recent_items lines 232-240
SeqStart ==
  /\ engine \in {"period", "recent"}
  /\ pc = "init"
  /\ \E o \in {"ok", "raise"} :
       /\ bootstrap' = o
       /\ IF o = "ok"
          THEN /\ current_id' = Len(upstream)
               /\ pc' = "scan"
          ELSE /\ pc' = "raised"
               /\ UNCHANGED current_id
  /\ UNCHANGED <<config, second, files, collected_usernames, items_pulled,
                 should_stop, batch_end, wave, user_pending, in_flight, result,
                 history, fetch_log, seq>>

\* One iteration of the loop of pull_data_for_period (lines 160-208)
PeriodStep ==
  /\ engine = "period"
  /\ pc = "scan"
  /\ current_id > 0
  /\ \E exc \in Excs, resp \in UserResponses, uexc \in Excs :
       LET r == get_item(current_id, exc)
           counted == [Outputs EXCEPT !.stats = AfterFetch(@, r.value)]
           old == items_outside_range + 1
           run == consecutive_old_items + 1
       IN
       /\ fetch_log' = Logged(current_id, Outcome(r))
       /\ CASE r.status = "raise" ->
                 /\ SetOutputs([Outputs EXCEPT !.stats.errors = @ + 1])
                 /\ UNCHANGED <<items_outside_range, consecutive_old_items>>
                 /\ current_id' = current_id - 1
                 /\ pc' = IF items_outside_range > MaxConsecutiveOld * 10
                          THEN "done" ELSE "scan"
            [] r.status = "ok" /\ HasTime(r.value) /\ InRange(r.value) ->
                 /\ SetOutputs(save_item(r.value, resp, uexc, counted))
                 /\ consecutive_old_items' = 0
                 /\ UNCHANGED items_outside_range
                 /\ current_id' = current_id - 1
                 /\ pc' = IF items_outside_range > MaxConsecutiveOld * 10
                          THEN "done" ELSE "scan"
            [] r.status = "ok" /\ HasTime(r.value) /\ ~InRange(r.value) ->
                 /\ SetOutputs(counted)
                 /\ items_outside_range' = old
                 /\ consecutive_old_items' = run
                 /\ IF run >= MaxConsecutiveOld
                    THEN /\ pc' = "done"
                         /\ UNCHANGED current_id
                    ELSE /\ current_id' = current_id - 1
                         /\ pc' = IF old > MaxConsecutiveOld * 10
                                  THEN "done" ELSE "scan"
            [] OTHER ->
                 /\ SetOutputs([counted EXCEPT !.stats.items_skipped = @ + 1])
                 /\ consecutive_old_items' = 0
                 /\ UNCHANGED items_outside_range
                 /\ current_id' = current_id - 1
                 /\ pc' = IF items_outside_range > MaxConsecutiveOld * 10
                          THEN "done" ELSE "scan"
  /\ UNCHANGED <<config, second, collected_usernames, items_pulled,
                 should_stop, batch_end, wave, user_pending, in_flight, result,
                 bootstrap, items_checked>>

\* One iteration of the loop of pull_recent_items (lines 242-277)
RecentStep ==
  /\ engine = "recent"
  /\ pc = "scan"
  /\ items_checked < count /\ current_id > 0
  /\ \E exc \in Excs, resp \in UserResponses, uexc \in Excs :
       LET r == get_item(current_id, exc)
           counted == [Outputs EXCEPT !.stats = AfterFetch(@, r.value)]
       IN
       /\ fetch_log' = Logged(current_id, Outcome(r))
       /\ CASE r.status = "raise" ->
                 /\ SetOutputs([Outputs EXCEPT !.stats.errors = @ + 1])
                 /\ UNCHANGED items_checked
            [] r.status = "ok" /\ HasTime(r.value) /\ InRange(r.value) ->
                 /\ SetOutputs(save_item(r.value, resp, uexc, counted))
                 /\ items_checked' = items_checked + 1
            [] OTHER ->
                 /\ SetOutputs([counted EXCEPT !.stats.items_skipped = @ + 1])
                 /\ items_checked' = items_checked + 1
       /\ current_id' = current_id - 1
  /\ UNCHANGED <<config, pc, second, collected_usernames, items_pulled,
                 should_stop, batch_end, wave, user_pending, in_flight, result,
                 bootstrap, items_outside_range, consecutive_old_items>>

\* The loop condition fails: the statistics are printed and the method returns
SeqFinish ==
  /\ \/ engine = "period" /\ ~(current_id > 0)
     \/ engine = "recent" /\ ~(items_checked < count /\ current_id > 0)
  /\ pc = "scan"
  /\ pc' = "done"
  /\ UNCHANGED <<config, second, files, collected_usernames, locals, wave,
                 user_pending, in_flight, result, bootstrap, history, fetch_log,
                 seq>>

InitCommon ==
  /\ pc = "init"
  /\ second = FALSE
  /\ item_file = NoFile
  /\ user_file = NoFile
  /\ collected_usernames = {}
  /\ items_pulled = 0
  /\ current_id = 0
  /\ should_stop = FALSE
  /\ batch_end = 0
  /\ batch_ids = <<>>
  /\ pending = {}
  /\ items = <<>>
  /\ done_order = <<>>
  /\ user_pending = {}
  /\ in_flight = {}
  /\ result = None
  /\ bootstrap = "pending"
  /\ run_items = <<>>
  /\ run_users = <<>>
  /\ reordered = FALSE
  /\ fetch_log = EmptyLog
  /\ stats = ZeroStats
  /\ collected_users = {}
  /\ items_outside_range = 0
  /\ consecutive_old_items = 0
  /\ items_checked = 0

\* The ID spaces: maxitem from 1 to MaxIdBound, every response for every ID
Worlds == UNION {[1..m -> Responses] : m \in 1..MaxIdBound}

NoStories == story_ids = <<>> /\ limit = None

\* main.py lines 7-14: the client, the DataPuller and the call of pull_items
BatchedInit(worlds, limits) ==
  /\ engine = "batched"
  /\ upstream \in worlds
  /\ NoStories
  /\ batch_size \in BatchSizes
  /\ max_concurrent \in limits
  /\ max_items \in Budgets
  /\ cutoff_time \in Cutoffs
  /\ count = 0

\* pull_six_months.py main, lines 315-323: the puller and the call of one of
\* the two scans (months and count are arguments); the cutoff is always set
ScanInit(worlds) ==
  /\ engine \in {"period", "recent"}
  /\ upstream \in worlds
  /\ NoStories
  /\ batch_size = 1
  /\ max_concurrent = 1
  /\ max_items = None
  /\ cutoff_time \in Cutoffs \ {None}
  /\ count \in IF engine = "period" THEN {0} ELSE 1..MaxIdBound

\* A call of get_top_stories(limit)
StoriesInit ==
  /\ engine = "stories"
  /\ upstream = <<>>
  /\ story_ids \in StoryLists
  /\ limit \in Limits
  /\ batch_size = 1
  /\ max_concurrent = 1
  /\ max_items = None
  /\ cutoff_time = None
  /\ count = 0

Init ==
  /\ \/ BatchedInit(Worlds, NoLimit)
     \/ ScanInit(Worlds)
     \/ StoriesInit
  /\ InitCommon

Next ==
  \/ MaxIdFetch
  \/ Bootstrap
  \/ LoopHead
  \/ ItemFetchDone
  \/ ProcessBatch
  \/ UserFetchDone
  \/ BatchEnd
  \/ Rerun
  \/ SeqStart
  \/ PeriodStep
  \/ RecentStep
  \/ SeqFinish
  \/ GetStories

Spec == Init /\ [][Next]_vars

\* One call of pull_items on a client whose max_concurrent is below the batch
\* size and below the number of new usernames of a batch
InitSlots == BatchedInit(Worlds, SlotLimits) /\ InitCommon

NextSlots ==
  \/ MaxIdFetch
  \/ Bootstrap
  \/ LoopHead
  \/ ItemFetchDone
  \/ ProcessBatch
  \/ UserFetchDone
  \/ BatchEnd

SpecSlots == InitSlots /\ [][NextSlots]_vars

\* One call of an entry point in which every fetch returns and the control
\* loop goes on: each step that can be taken is eventually taken
NextRun ==
  \/ MaxIdFetch
  \/ Bootstrap
  \/ LoopHead
  \/ ItemFetchDone
  \/ ProcessBatch
  \/ UserFetchDone
  \/ BatchEnd
  \/ SeqStart
  \/ PeriodStep
  \/ RecentStep
  \/ SeqFinish
  \/ GetStories

\* The sequential engine alone: one call of pull_data_for_period or of
\* pull_recent_items on a fresh DataPuller of pull_six_months.py
InitSeq == ScanInit(Worlds) /\ InitCommon
NextSeq == SeqStart \/ PeriodStep \/ RecentStep \/ SeqFinish
SpecSeq == InitSeq /\ [][NextSeq]_vars

\* The responses that make a step end differently: an item in range, an old
\* item, a failed fetch
RunResponses ==
  {r \in Responses : r.kind = "error" \/ (r.kind = "item" /\ r.by = Some("a"))}
RunWorlds == UNION {[1..m -> RunResponses] : m \in 1..MaxIdBound}

InitRun ==
  /\ \/ BatchedInit(RunWorlds, NoLimit)
     \/ ScanInit(RunWorlds)
     \/ StoriesInit
  /\ InitCommon

SpecRun == InitRun /\ [][NextRun]_vars /\ WF_vars(NextRun)

\* ===================================================================== claims
ItemLines == item_file.lines
UserLines == user_file.lines
Present == {id \in DOMAIN upstream : upstream[id].kind = "item"}
Emitted(id) == \E i \in 1..Len(ItemLines) : ItemLines[i].id = id
UserEmitted(u) == \E i \in 1..Len(UserLines) : UserLines[i].id = u
\* Number of logged fetches of the current call whose outcome is in outcomes
NumFetches(outcomes) ==
  Cardinality(UNION {{<<id, k>> : k \in {n \in 1..Len(fetch_log[id]) :
                                            fetch_log[id][n] \in outcomes}} :
                     id \in DOMAIN upstream})
BatchSet == SeqToSet(batch_ids)

\* C1: a run of pull_items with max_items = K and no cutoff over an ID space
\* holding at least K present items ends with exactly K records in the item
\* output.
C1_ExactlyKRecords ==
  (/\ engine = "batched" /\ pc = "done" /\ bootstrap = "ok"
   /\ ~IsNone(max_items) /\ IsNone(cutoff_time)
   /\ Cardinality(Present) >= Get(max_items))
  => Len(ItemLines) = Get(max_items)

\* C2: with a cutoff T and no budget, every emitted item has time >= T or no
\* time field, and nothing is emitted below the first present item (in
\* descending-ID order) whose time is < T.
C2_CutoffRespected ==
  (engine = "batched" /\ ~IsNone(cutoff_time) /\ IsNone(max_items))
  => \A i \in 1..Len(ItemLines) :
       /\ IsNone(ItemLines[i].time) \/ Get(ItemLines[i].time) >= Get(cutoff_time)
       /\ ~\E j \in Present :
             /\ j > ItemLines[i].id
             /\ ~IsNone(upstream[j].time)
             /\ Get(upstream[j].time) < Get(cutoff_time)

C2_Witness ==
  /\ engine = "batched" /\ ~IsNone(cutoff_time) /\ IsNone(max_items)
  /\ pc = "done" /\ should_stop
  /\ \E i \in 1..Len(ItemLines) : IsNone(ItemLines[i].time)
  /\ \E j \in Present : ~Emitted(j) /\ upstream[j].time = Some(2)

\* C3: the IDs of the records of the item output are strictly decreasing, in
\* the batched engine whatever the completion order of the fetches of a batch,
\* and in the sequential scans.
C3_StrictlyDecreasingIds ==
  \A i, j \in 1..Len(ItemLines) : i < j => ItemLines[i].id > ItemLines[j].id

C3_Witness ==
  /\ engine = "batched" /\ pc = "users" /\ reordered
  /\ Len(batch_ids) >= 2
  /\ \A id \in BatchSet : Emitted(id)

\* C4: each username appears at most once in the user output, however many
\* emitted items carry that author, in one batch or in several.
C4_UsersUnique ==
  \A i, j \in 1..Len(UserLines) : i # j => UserLines[i].id # UserLines[j].id

C4_Witness ==
  /\ engine = "batched" /\ batch_size = 2 /\ pc = "done"
  /\ Len(ItemLines) = 3
  /\ \A i \in 1..3 : ItemLines[i].by = Some("a")
  /\ UserEmitted("a")

\* C5: when get_max_item_id fails, the run ends with nothing emitted and with
\* both output files existing and empty.
C5_BootstrapFailureLeavesEmptyFiles ==
  (engine = "batched" /\ pc = "done" /\ bootstrap = "none")
  => /\ run_items = <<>> /\ run_users = <<>>
     /\ item_file = [exists |-> TRUE, lines |-> <<>>]
     /\ user_file = [exists |-> TRUE, lines |-> <<>>]

\* C6: after a second run of pull_items on the same destinations the outputs
\* hold exactly the records the second run emitted, whatever its outcome.
C6_OnlySecondRunRecords ==
  (engine = "batched" /\ second /\ pc = "done")
  => ItemLines = run_items /\ UserLines = run_users

\* C7: an item ID whose fetch returned None adds no record to the item output
\* and nothing to the emitted count, and adds exactly one to the considered
\* count (items_total counts the fetches that returned, an item or None).
C7_AbsentSkippedAndCounted ==
  /\ \A id \in DOMAIN upstream :
       (\E k \in 1..Len(fetch_log[id]) : fetch_log[id][k] = "none") => ~Emitted(id)
  /\ engine = "batched" => items_pulled <= NumFetches({"item"})
  /\ engine \in {"period", "recent"} =>
       /\ stats.items_saved <= NumFetches({"item"})
       /\ stats.items_total = NumFetches({"item", "none"})

C7_Witness ==
  /\ engine = "period" /\ pc = "done"
  /\ \E id \in DOMAIN upstream : fetch_log[id] = <<"none">> /\ upstream[id].kind = "error"
  /\ \E id \in DOMAIN upstream : fetch_log[id] = <<"none">> /\ upstream[id].kind = "absent"
  /\ stats.items_saved = 1 /\ stats.items_total = 3

\* C8: in a batch where some fetches fail and others succeed, every fetched
\* item not older than the cutoff is emitted, in descending-ID order, and each
\* failed ID is skipped.
C8_PartialBatchEmitsAllInRange ==
  (/\ engine = "batched" /\ pc = "users"
   /\ \E id \in BatchSet : upstream[id].kind = "error"
   /\ \E id \in BatchSet : upstream[id].kind = "item")
  => /\ \A id \in BatchSet :
          (~IsNone(items[id]) /\ ~OlderThanCutoff(Get(items[id]))) => Emitted(id)
     /\ \A id \in BatchSet : IsNone(items[id]) => ~Emitted(id)
     /\ C3_StrictlyDecreasingIds

\* C9: a user record is in the user output only if a record of an item naming
\* that user as author is in the item output.
C9_UserAfterItem ==
  \A i \in 1..Len(UserLines) :
    \E j \in 1..Len(ItemLines) : ItemLines[j].by = Some(UserLines[i].id)

C9_Witness ==
  /\ engine = "batched" /\ ~IsNone(cutoff_time)
  /\ Len(UserLines) = 1 /\ UserLines[1].id = "b"
  /\ \E id \in DOMAIN upstream :
       /\ upstream[id].by = Some("a") /\ fetch_log[id] = <<"item">> /\ ~Emitted(id)

\* C10: after a successful bootstrap no item or user fetch failure makes
\* pull_items raise; the run goes on to lower IDs and returns its count.
C10_FetchFailuresAbsorbed ==
  (engine = "batched" /\ bootstrap = "ok")
  => /\ pc # "raised"
     /\ pc = "done" => result = Some(items_pulled)

C10_Witness ==
  /\ engine = "batched" /\ bootstrap = "ok" /\ pc = "done"
  /\ \E id \in DOMAIN upstream :
       /\ upstream[id].kind = "error" /\ fetch_log[id] = <<"none">>
       /\ \E lower \in 1..(id - 1) : Emitted(lower)
  /\ \E u \in collected_usernames : ~UserEmitted(u)

\* The run of pull_items with the user handling left out: the records the
\* batch ids emits from position i on, and whether an old item stopped it
RECURSIVE ScanBatch(_, _)
ScanBatch(ids, i) ==
  IF i > Len(ids) THEN [out |-> <<>>, stop |-> FALSE]
  ELSE LET got == pull_single_item(ids[i]).value IN
    IF IsNone(got) THEN ScanBatch(ids, i + 1)
    ELSE IF OlderThanCutoff(Get(got)) THEN [out |-> <<>>, stop |-> TRUE]
    ELSE LET rest == ScanBatch(ids, i + 1)
         IN [out |-> <<Get(got)>> \o rest.out, stop |-> rest.stop]

\* The item records of a whole run from cursor cur with pulled items emitted
RECURSIVE ItemsOfRun(_, _)
ItemsOfRun(cur, pulled) ==
  IF ~IsNone(max_items) /\ pulled >= Get(max_items) THEN <<>>
  ELSE LET b == ScanBatch(BatchIds(cur, pulled), 1)
           n == pulled + Len(b.out)
           next == BatchEndOf(cur) - 1
       IN IF b.stop \/ next < 1 \/ (~IsNone(max_items) /\ n >= Get(max_items))
          THEN b.out
          ELSE b.out \o ItemsOfRun(next, n)

\* A record no fetch returns: marks an ID the scan should have fetched
Unfetched == [id |-> 0, time |-> None, by |-> None]
Then(rec, rest) == [out |-> rec \o rest.out, cur |-> rest.cur]
SavedAt(id) ==
  IF fetch_log[id][1] = "item" /\ HasTime(Some(ItemDict(id))) /\ InRange(Some(ItemDict(id)))
  THEN <<ItemDict(id)>> ELSE <<>>
OldAt(id) ==
  fetch_log[id][1] = "item" /\ HasTime(Some(ItemDict(id))) /\ ~InRange(Some(ItemDict(id)))

\* pull_data_for_period with the user handling left out, on the logged
\* outcomes of the item fetches: the records saved and the final cursor
RECURSIVE ItemsOfPeriod(_, _, _)
ItemsOfPeriod(id, run, old) ==
  IF id < 1 THEN [out |-> <<>>, cur |-> id]
  ELSE IF fetch_log[id] = <<>> THEN [out |-> <<Unfetched>>, cur |-> id]
  ELSE IF OldAt(id) /\ run + 1 >= MaxConsecutiveOld THEN [out |-> <<>>, cur |-> id]
  ELSE LET run2 == IF OldAt(id) THEN run + 1
                   ELSE IF fetch_log[id][1] = "raise" THEN run ELSE 0
           old2 == IF OldAt(id) THEN old + 1 ELSE old
       IN IF old2 > MaxConsecutiveOld * 10 THEN [out |-> SavedAt(id), cur |-> id - 1]
          ELSE Then(SavedAt(id), ItemsOfPeriod(id - 1, run2, old2))

\* pull_recent_items with the user handling left out, likewise
RECURSIVE ItemsOfRecent(_, _)
ItemsOfRecent(id, checked) ==
  IF ~(checked < count /\ id > 0) THEN [out |-> <<>>, cur |-> id]
  ELSE IF fetch_log[id] = <<>> THEN [out |-> <<Unfetched>>, cur |-> id]
  ELSE Then(SavedAt(id),
            ItemsOfRecent(id - 1, IF fetch_log[id][1] = "raise" THEN checked
                                  ELSE checked + 1))

ItemsOfScan ==
  IF engine = "period" THEN ItemsOfPeriod(Len(upstream), 0, 0)
  ELSE ItemsOfRecent(Len(upstream), 0)

\* C11: the item output and the emitted count of a finished run are those of
\* the run with the user handling left out: they are determined by the items,
\* the configuration and the outcomes of the item fetches, whatever the user
\* fetches returned (a profile, absence or a failure).
C11_ItemOutputIgnoresUserFetches ==
  /\ (engine = "batched" /\ bootstrap = "ok" /\ pc \in {"done", "raised"})
     => /\ ItemLines = ItemsOfRun(Len(upstream), 0)
        /\ items_pulled = Len(ItemLines)
  /\ (engine \in {"period", "recent"} /\ bootstrap = "ok" /\ pc \in {"done", "raised"})
     => /\ ItemLines = ItemsOfScan.out
        /\ current_id = ItemsOfScan.cur
        /\ stats.items_saved = Len(ItemLines)

C11_Witness ==
  /\ engine = "batched" /\ bootstrap = "ok" /\ pc = "done"
  /\ Len(ItemLines) >= 2
  /\ \E u \in collected_usernames : UserEmitted(u)
  /\ \E u \in collected_usernames : ~UserEmitted(u)

\* Why a finished run of pull_items ended (lines 78-80, 105, 150, 174, 179)
Cause ==
  IF bootstrap = "none" THEN "bootstrap failure"
  ELSE IF should_stop THEN "cutoff"
  ELSE IF ~IsNone(max_items) /\ items_pulled >= Get(max_items) THEN "budget"
  ELSE "exhausted"

\* C12: the value pull_items returns identifies the termination cause. A run
\* whose bootstrap failed returns 0, so every finished run that returns 0
\* ended for that cause and for no other.
C12_OutcomeIdentifiesCause ==
  (engine = "batched" /\ pc = "done" /\ result = Some(0))
  => Cause = "bootstrap failure"

\* C13: at every moment of a run the fetches in flight (item, user and
\* max-ID fetches together) number at most max_concurrent, also when the batch
\* or the set of new usernames of a batch is larger than max_concurrent.
C13_InFlightBounded == Cardinality(in_flight) <= max_concurrent

C13_Witness ==
  /\ engine = "batched" /\ pc = "users"
  /\ Len(batch_ids) > max_concurrent
  /\ Cardinality(user_pending) > max_concurrent
  /\ Cardinality(in_flight) = max_concurrent
  /\ \E u \in user_pending : UserTask(u) \notin in_flight

\* C14: HackerNewsClient.get_item and get_user return None and never raise,
\* for a not-found response, for a null body and for every transport failure:
\* no item fetch of a sequential scan ends with an exception, and no exception
\* of get_item or get_user reaches the handlers that count the errors.
C14_ClientNeverRaises ==
  engine \in {"period", "recent"}
  => /\ \A id \in DOMAIN upstream : "raise" \notin SeqToSet(fetch_log[id])
     /\ stats.errors = 0

\* C15: at every step boundary of a run the emitted-item count (items_pulled,
\* which pull_items returns; stats['items_saved'] in the sequential scans)
\* equals the number of records in the item output.
C15_CountMatchesOutput ==
  /\ (engine = "batched" /\ bootstrap = "ok") => items_pulled = Len(ItemLines)
  /\ (engine = "batched" /\ pc = "done") => result = Some(Len(ItemLines))
  /\ engine \in {"period", "recent"} => stats.items_saved = Len(ItemLines)

\* C16: pull_recent_items(count) attempts to fetch at most count item IDs,
\* maxId down to maxId - count + 1, whatever the outcomes of the fetches.
C16_AtMostCountAttempts ==
  engine = "recent"
  => /\ NumFetches({"item", "none", "raise"}) <= count
     /\ \A id \in DOMAIN upstream :
          fetch_log[id] # <<>> => id >= Len(upstream) - count + 1

\* C17: for every limit given to get_top_stories the returned list is a
\* prefix of the upstream ID list and has at most limit elements; with no
\* limit the whole list is returned.
C17_StoriesPrefixAtMostLimit ==
  (engine = "stories" /\ pc = "done")
  => /\ Len(Get(result)) <= Len(story_ids)
     /\ Get(result) = SubSeq(story_ids, 1, Len(Get(result)))
     /\ ~IsNone(limit) => Len(Get(result)) <= Get(limit)
     /\ IsNone(limit) => Get(result) = story_ids

\* The IDs whose fetch the current call has issued: completed or in the batch
Fetched == {id \in DOMAIN upstream : fetch_log[id] # <<>>} \cup pending

\* C18: the scan of pull_items skips no ID: the IDs fetched so far are exactly
\* the contiguous range from maxId down to the lowest ID fetched, each fetched
\* once, and no ID below 1 is put in a batch, with and without a budget.
C18_ContiguousScan ==
  engine = "batched"
  => /\ \A id \in Fetched : \A above \in id..Len(upstream) : above \in Fetched
     /\ \A id \in DOMAIN upstream :
          Len(fetch_log[id]) + (IF id \in pending THEN 1 ELSE 0) <= 1
     /\ \A i \in 1..Len(batch_ids) : batch_ids[i] >= 1

\* C19: when a batch holds an item older than the cutoff, every other fetched
\* item of that batch whose time is not older than the cutoff is emitted
\* before the run stops, wherever it lies in the batch.
C19_InRangeOfStoppingBatchEmitted ==
  (/\ engine = "batched" /\ pc \in {"users", "done"} /\ should_stop
   /\ bootstrap = "ok")
  => \A id \in BatchSet :
       (/\ ~IsNone(items[id])
        /\ ~IsNone(Get(items[id]).time)
        /\ Get(Get(items[id]).time) >= Get(cutoff_time))
       => Emitted(id)

\* C20: with max_items = K the emitted count never exceeds K; once it has
\* reached K no item fetch is issued any more (no batch is in flight and the
\* loop head leaves without fetching); with K = 0 the run issues no item fetch
\* at all, also when a cutoff is configured.
C20_BudgetRespected ==
  (engine = "batched" /\ ~IsNone(max_items))
  => /\ items_pulled <= Get(max_items)
     /\ Len(run_items) <= Get(max_items)
     /\ items_pulled >= Get(max_items) => pc # "gather" /\ pending = {}
     /\ Get(max_items) = 0 => fetch_log = EmptyLog /\ batch_ids = <<>>

\* C20 (step form): a step taken with the budget already reached issues and
\* completes no item fetch.
C20_NoFetchAfterBudget ==
  [][(engine = "batched" /\ ~IsNone(max_items) /\ items_pulled >= Get(max_items)
      /\ pc \in {"loop", "users", "done"} /\ pc' # "init")
     => (fetch_log' = fetch_log /\ pending' = {} /\ pc' # "gather")]_vars

C20_Witness ==
  /\ engine = "batched" /\ pc = "done" /\ bootstrap = "ok"
  /\ max_items = Some(1) /\ ~IsNone(cutoff_time)
  /\ items_pulled = 1
  /\ \E id \in Present : fetch_log[id] = <<>> /\ upstream[id].time = Some(2)

\* C21: in pull_data_for_period, once the scan has fetched a present item
\* whose time is older than the cutoff, the run stops there: no ID below it is
\* fetched and nothing below it is emitted.
C21_StopsAtFirstOldItem ==
  engine = "period"
  => \A id \in DOMAIN upstream :
       (fetch_log[id] # <<>> /\ OldAt(id))
       => \A lower \in 1..(id - 1) : fetch_log[lower] = <<>> /\ ~Emitted(lower)

\* C22: in the sequential scans a present item that has no time field is
\* emitted: every fetched item without a time is in the item output.
C22_NoTimeItemEmitted ==
  engine \in {"period", "recent"}
  => \A id \in DOMAIN upstream :
       (fetch_log[id] = <<"item">> /\ IsNone(upstream[id].time)) => Emitted(id)

UserIds == {UserLines[i].id : i \in 1..Len(UserLines)}

\* C23: the dedup set equals the set of usernames whose record is in the user
\* output, so the reported number of unique users equals the number of user
\* records; stated at the step boundaries of a first run of pull_items (all
\* user fetches of the batch completed) and at every point of a sequential scan.
C23_DedupSetIsUserOutput ==
  /\ (engine = "batched" /\ bootstrap = "ok" /\ ~second /\ pc \in {"loop", "done"})
     => /\ collected_usernames = UserIds
        /\ Cardinality(collected_usernames) = Len(UserLines)
  /\ engine \in {"period", "recent"}
     => /\ collected_users = UserIds
        /\ Cardinality(collected_users) = Len(UserLines)

\* C24: every run of pull_items begins with an empty dedup set: as long as the
\* call has emitted no item, no username is in the set, in a first call and
\* in a second call on the same DataPuller.
C24_RunStartsWithEmptyDedupSet ==
  (engine = "batched" /\ pc \in {"init", "maxid", "loop", "gather"}
   /\ run_items = <<>>)
  => collected_usernames = {}

\* C25: user records are appended only by the control loop after the results
\* of the wave have been collected: while a save_user task of a batch is still
\* outstanding, every record the call has written to the user output belongs
\* to an author first emitted in an earlier batch (an ID above this batch).
C25_NoWriteWhileWaveOutstanding ==
  (engine = "batched" /\ bootstrap = "ok" /\ pc = "users" /\ user_pending # {})
  => \A i \in 1..Len(run_users) :
       \E j \in 1..Len(run_items) :
         /\ run_items[j].by = Some(run_users[i].id)
         /\ run_items[j].id > batch_ids[1]

\* The item records of a run of pull_items with batch_size = 1: one ID per
\* step, from cursor cur down, with pulled items emitted so far
RECURSIVE ItemsOfWidthOne(_, _)
ItemsOfWidthOne(cur, pulled) ==
  IF cur < 1 \/ (~IsNone(max_items) /\ pulled >= Get(max_items)) THEN <<>>
  ELSE LET got == pull_single_item(cur).value IN
    IF IsNone(got) THEN ItemsOfWidthOne(cur - 1, pulled)
    ELSE IF OlderThanCutoff(Get(got)) THEN <<>>
    ELSE <<Get(got)>> \o ItemsOfWidthOne(cur - 1, pulled + 1)

\* C26: for the same upstream contents, budget and cutoff, a finished run of
\* pull_items emits, with every batch_size, the item sequence of the run with
\* batch_size = 1.
C26_BatchWidthDoesNotChangeItems ==
  (engine = "batched" /\ bootstrap = "ok" /\ pc = "done")
  => run_items = ItemsOfWidthOne(Len(upstream), 0)

Ended == pc \in {"done", "raised"}

\* C27: every call ends, provided each fetch returns; every step of the scan
\* (a batch of pull_items, an iteration of pull_data_for_period or of
\* pull_recent_items, also one whose fetch failed) lowers the cursor, or is
\* the iteration that leaves pull_data_for_period at its break; a finished
\* run of pull_items with neither budget nor cutoff has its cursor below 1
\* and has fetched every ID of 1..maxId.
C27_Terminates ==
  /\ <>Ended
  /\ [][(BatchEnd \/ PeriodStep \/ RecentStep)
        => (current_id' < current_id \/ (engine = "period" /\ pc' = "done"))]_vars
  /\ []((/\ engine = "batched" /\ pc = "done" /\ bootstrap = "ok"
         /\ IsNone(max_items) /\ IsNone(cutoff_time))
        => (current_id < 1 /\ \A id \in DOMAIN upstream : fetch_log[id] # <<>>))

C27_Witness ==
  /\ engine = "batched" /\ pc = "done" /\ bootstrap = "ok"
  /\ IsNone(max_items) /\ IsNone(cutoff_time)
  /\ batch_size = 2 /\ Len(upstream) = MaxIdBound
  /\ \E id \in DOMAIN upstream : upstream[id].kind = "error"
  /\ \A id \in DOMAIN upstream : fetch_log[id] # <<>>

\* C28: in pull_items, outside the wave of user fetches (before the next
\* batch's item fetches are issued, while they run, and once the run has
\* returned) no user fetch of an earlier batch is waiting or in flight; this
\* includes the batch that hit the cutoff stop or the budget.
C28_UserWaveCompletesBeforeNextBatch ==
  (engine = "batched" /\ bootstrap = "ok" /\ pc \in {"loop", "gather", "done"})
  => /\ user_pending = {}
     /\ \A t \in in_flight : t.kind # "user"

C28_Witness ==
  /\ engine = "batched" /\ pc = "done" /\ bootstrap = "ok"
  /\ should_stop
  /\ batch_ids # <<>> /\ batch_ids[1] = Len(upstream)
  /\ max_concurrent = 1
  /\ Len(run_users) = 2

\* C29: whenever pull_data_for_period stops for the 'consecutive old items'
\* cause, each of the max_consecutive_old most recently attempted IDs (the
\* cursor and the IDs just above it) returned a present item older than the
\* cutoff; an in-range item, an absent item or a failed fetch in between
\* restarts the count.
C29_StopMeansConsecutiveOld ==
  (/\ engine = "period" /\ pc = "done"
   /\ consecutive_old_items >= MaxConsecutiveOld)
  => \A k \in 0..(MaxConsecutiveOld - 1) :
       /\ current_id + k \in DOMAIN upstream
       /\ fetch_log[current_id + k] = <<"item">>
       /\ OldAt(current_id + k)

\* C30: in the sequential engine the statistics are conserved at every step
\* boundary: in pull_data_for_period items_total = items_saved + items_skipped
\* + items_outside_range, in pull_recent_items items_total = items_saved +
\* items_skipped, and users_saved equals both the size of collected_users and
\* the number of records in the user output.
C30_StatsConserved ==
  /\ engine = "period"
     => stats.items_total
          = stats.items_saved + stats.items_skipped + items_outside_range
  /\ engine = "recent"
     => stats.items_total = stats.items_saved + stats.items_skipped
  /\ engine \in {"period", "recent"}
     => /\ stats.users_saved = Cardinality(collected_users)
        /\ stats.users_saved = Len(UserLines)

C30_Witness ==
  /\ engine = "period" /\ pc = "done"
  /\ stats.items_saved = 1 /\ stats.items_skipped = 1 /\ items_outside_range = 1
  /\ stats.users_saved = 1
  /\ stats.errors = 0

====
